---- MODULE Spec2Model ----
(***************************************************************************)
(* Cat Calorie Tracker: the calculation helpers of helpers.py and the      *)
(* session state and form handlers of app.py.                              *)
(*                                                                         *)
(* Numbers.  Python floats are modelled as exact rationals <<n, d>> in     *)
(* lowest terms with d > 0 (IEEE rounding is not modelled); Python ints    *)
(* that take part in float arithmetic are lifted with R(k).  Weights are   *)
(* drawn from perfect fourth powers so that weight_kg ** 0.75 is rational. *)
(* Strings produced by strftime("%H:%M") are sequences of character codes. *)
(***************************************************************************)
EXTENDS Integers, Sequences, FiniteSets, TLC

VARIABLES cats, feeding_schedule, food_database, notice, call

vars == <<cats, feeding_schedule, food_database, notice, call>>

(***************************************************************************)
(* Bounds of the model.                                                    *)
(***************************************************************************)
MaxMeals == 2

MaxAdded == 1

\* Meals in the schedule where the sums of a day are compared.
MaxDayMeals == 3

\* Bits of the significand of a float, scaled down from the 53 of a double to
\* the size of the calorie values submitted here.
SignificandBits == 8

(***************************************************************************)
(* Float arithmetic as exact rational arithmetic.                          *)
(***************************************************************************)
Abs(k) == IF k < 0 THEN -k ELSE k

RECURSIVE GCD(_, _)
GCD(a, b) == IF b = 0 THEN a ELSE GCD(b, a % b)

Norm(n, d) ==
  LET s == IF d < 0 THEN -1 ELSE 1
      g == GCD(Abs(n), Abs(d))
  IN  <<(s * n) \div g, (s * d) \div g>>

R(k) == <<k, 1>>

RMul(a, b) == Norm(a[1] * b[1], a[2] * b[2])

RDiv(a, b) == Norm(a[1] * b[2], a[2] * b[1])

\* Sums are formed over the least common denominator to keep the integers small.
RAdd(a, b) ==
  LET g == GCD(a[2], b[2])
  IN  Norm(a[1] * (b[2] \div g) + b[1] * (a[2] \div g), (a[2] \div g) * b[2])

RSub(a, b) == RAdd(a, <<-b[1], b[2]>>)

RLt(a, b) == a[1] * b[2] < b[1] * a[2]

RLe(a, b) == ~RLt(b, a)

RAbs(a) == <<Abs(a[1]), a[2]>>

RECURSIVE Pow2(_)
Pow2(k) == IF k = 0 THEN 1 ELSE 2 * Pow2(k - 1)

\* x > 0 written as x = s * 2^e with 2^(SignificandBits - 1) <= s < 2^SignificandBits.
RECURSIVE scaled(_, _)
scaled(s, e) ==
  IF RLe(R(Pow2(SignificandBits)), s) THEN scaled(RDiv(s, R(2)), e + 1)
  ELSE IF RLt(s, R(Pow2(SignificandBits - 1))) THEN scaled(RMul(s, R(2)), e - 1)
  ELSE [s |-> s, e |-> e]

\* The float nearest to x, the even significand on a tie: a binary float with
\* a significand of SignificandBits bits and no bound on the exponent.
round_to_float(x) ==
  IF x[1] = 0 THEN x
  ELSE LET sc == scaled(RAbs(x), 0)
           m  == sc.s[1] \div sc.s[2]
           r  == RSub(sc.s, R(m))
           up == RLt(<<1, 2>>, r) \/ (r = <<1, 2>> /\ m % 2 = 1)
           n  == IF up THEN m + 1 ELSE m
           v  == IF sc.e >= 0 THEN R(n * Pow2(sc.e)) ELSE Norm(n, Pow2(-sc.e))
       IN  IF x[1] < 0 THEN <<-v[1], v[2]>> ELSE v

\* a + b on floats: the exact sum, rounded.
float_add(a, b) == round_to_float(RAdd(a, b))

\* x ** 0.75 for x = (a/b)^4, the only weights the model submits.
Pow075(x) ==
  LET a == CHOOSE r \in 0..x[1] : r * r * r * r = x[1]
      b == CHOOSE r \in 1..x[2] : r * r * r * r = x[2]
  IN  Norm(a * a * a, b * b * b)

ZeroDivisionError == [exception |-> "ZeroDivisionError"]

(***************************************************************************)
(* helpers.py: calorie calculations.                                       *)
(***************************************************************************)
calculate_resting_energy_requirement(weight_kg) == RMul(R(70), Pow075(weight_kg))

multipliers ==
  [ kitten_0_4_months  |-> <<5, 2>>,
    kitten_4_12_months |-> <<2, 1>>,
    adult_neutered     |-> <<6, 5>>,
    adult_intact       |-> <<7, 5>>,
    adult_active       |-> <<8, 5>>,
    senior             |-> <<11, 10>>,
    weight_loss        |-> <<4, 5>>,
    weight_gain        |-> <<13, 10>> ]

\* Mutant: the senior multiplier is tested before the body condition.
select_multiplier_senior_first(activity_level, life_stage, body_condition) ==
  IF life_stage = "kitten" /\ activity_level = "very_young"
    THEN multipliers.kitten_0_4_months
  ELSE IF life_stage = "kitten" THEN multipliers.kitten_4_12_months
  ELSE IF life_stage = "senior" THEN multipliers.senior
  ELSE IF body_condition = "overweight" THEN multipliers.weight_loss
  ELSE IF body_condition = "underweight" THEN multipliers.weight_gain
  ELSE IF activity_level = "low" THEN multipliers.adult_neutered
  ELSE IF activity_level = "moderate" THEN multipliers.adult_intact
  ELSE multipliers.adult_active

select_multiplier(activity_level, life_stage, body_condition) ==
  IF life_stage = "kitten" /\ activity_level = "very_young"
    THEN multipliers.kitten_0_4_months
  ELSE IF life_stage = "kitten" THEN multipliers.kitten_4_12_months
  ELSE IF body_condition = "overweight" THEN multipliers.weight_loss
  ELSE IF body_condition = "underweight" THEN multipliers.weight_gain
  ELSE IF life_stage = "senior" THEN multipliers.senior
  ELSE IF activity_level = "low" THEN multipliers.adult_neutered
  ELSE IF activity_level = "moderate" THEN multipliers.adult_intact
  ELSE multipliers.adult_active

calculate_daily_energy_requirement(rer, activity_level, life_stage, body_condition) ==
  RMul(rer, select_multiplier(activity_level, life_stage, body_condition))

DryCupGrams == 113

WetCupGrams == 227

\* Mutant: the dry cup size is used for every food type.
calculate_serving_size_dry_cup(food_calories_per_100g, target_calories, food_type) ==
  IF food_calories_per_100g[1] = 0 THEN ZeroDivisionError
  ELSE LET grams_needed == RMul(RDiv(target_calories, food_calories_per_100g), R(100))
       IN  [grams_needed |-> grams_needed, cups |-> RDiv(grams_needed, R(DryCupGrams))]

\* Returns (grams_needed, cups) as a record; a zero divisor raises.
calculate_serving_size(food_calories_per_100g, target_calories, food_type) ==
  IF food_calories_per_100g[1] = 0 THEN ZeroDivisionError
  ELSE LET grams_needed == RMul(RDiv(target_calories, food_calories_per_100g), R(100))
           cups == IF food_type = "dry" THEN RDiv(grams_needed, R(DryCupGrams))
                   ELSE RDiv(grams_needed, R(WetCupGrams))
       IN  [grams_needed |-> grams_needed, cups |-> cups]

calculate_age_in_months(years, months) == (years * 12) + months

determine_life_stage(age_months) ==
  IF age_months < 12 THEN "kitten"
  ELSE IF age_months < 120 THEN "adult"
  ELSE "senior"

\* Mutant: a cat of exactly 4 months is no longer very young.
determine_activity_level_from_age_strict(age_months) ==
  IF age_months < 4 THEN "very_young"
  ELSE IF age_months < 12 THEN "high"
  ELSE IF age_months < 84 THEN "moderate"
  ELSE "low"

determine_activity_level_from_age(age_months) ==
  IF age_months <= 4 THEN "very_young"
  ELSE IF age_months < 12 THEN "high"
  ELSE IF age_months < 84 THEN "moderate"
  ELSE "low"

(***************************************************************************)
(* helpers.py: food database.                                              *)
(***************************************************************************)
load_default_food_database ==
  [ dry |-> <<
      [brand |-> "Royal Canin Indoor Adult", calories_per_100g |-> 375],
      [brand |-> "Royal Canin Kitten", calories_per_100g |-> 400],
      [brand |-> "Royal Canin Senior", calories_per_100g |-> 365],
      [brand |-> "Hill's Science Diet Adult Indoor", calories_per_100g |-> 370],
      [brand |-> "Hill's Science Diet Kitten", calories_per_100g |-> 395],
      [brand |-> "Hill's Science Diet Senior 7+", calories_per_100g |-> 360],
      [brand |-> "Hill's Prescription Diet c/d", calories_per_100g |-> 373],
      [brand |-> "Purina Pro Plan Adult", calories_per_100g |-> 420],
      [brand |-> "Purina Pro Plan Kitten", calories_per_100g |-> 437],
      [brand |-> "Purina Pro Plan Weight Management", calories_per_100g |-> 329],
      [brand |-> "Blue Buffalo Wilderness Adult", calories_per_100g |-> 416],
      [brand |-> "Blue Buffalo Life Protection Adult", calories_per_100g |-> 385],
      [brand |-> "Blue Buffalo Kitten", calories_per_100g |-> 405],
      [brand |-> "Wellness CORE Grain-Free", calories_per_100g |-> 421],
      [brand |-> "Wellness Complete Health Adult", calories_per_100g |-> 390],
      [brand |-> "Orijen Cat & Kitten", calories_per_100g |-> 406],
      [brand |-> "Orijen Six Fish", calories_per_100g |-> 402],
      [brand |-> "Taste of the Wild Canyon River", calories_per_100g |-> 390],
      [brand |-> "Nutro Indoor Adult", calories_per_100g |-> 368],
      [brand |-> "Natural Balance Indoor", calories_per_100g |-> 375],
      [brand |-> "Iams ProActive Health Adult", calories_per_100g |-> 400],
      [brand |-> "Iams Kitten", calories_per_100g |-> 414],
      [brand |-> "Meow Mix Original Choice", calories_per_100g |-> 350],
      [brand |-> "Friskies Indoor Delights", calories_per_100g |-> 359],
      [brand |-> "Purina Cat Chow Naturals", calories_per_100g |-> 378],
      [brand |-> "Purina ONE Indoor Advantage", calories_per_100g |-> 389],
      [brand |-> "9Lives Daily Essentials", calories_per_100g |-> 345],
      [brand |-> "Rachael Ray Nutrish Natural", calories_per_100g |-> 361],
      [brand |-> "Royal Canin Urinary SO", calories_per_100g |-> 371],
      [brand |-> "Hill's Prescription Diet k/d", calories_per_100g |-> 380]
    >>,
    wet |-> <<
      [brand |-> "Fancy Feast Classic Pate Chicken", calories_per_100g |-> 90],
      [brand |-> "Fancy Feast Classic Pate Turkey", calories_per_100g |-> 88],
      [brand |-> "Fancy Feast Classic Pate Beef", calories_per_100g |-> 92],
      [brand |-> "Sheba Perfect Portions Pate", calories_per_100g |-> 85],
      [brand |-> "Royal Canin Instinctive Loaf", calories_per_100g |-> 93],
      [brand |-> "Royal Canin Kitten Loaf", calories_per_100g |-> 105],
      [brand |-> "Hill's Science Diet Adult Savory Chicken", calories_per_100g |-> 100],
      [brand |-> "Hill's Science Diet Kitten Pate", calories_per_100g |-> 112],
      [brand |-> "Blue Buffalo Wilderness Chicken Pate", calories_per_100g |-> 105],
      [brand |-> "Blue Buffalo Tastefuls Pate", calories_per_100g |-> 95],
      [brand |-> "Fancy Feast Gravy Lovers", calories_per_100g |-> 78],
      [brand |-> "Friskies Classic Pate Mixed Grill", calories_per_100g |-> 95],
      [brand |-> "Friskies Gravy Sensations", calories_per_100g |-> 82],
      [brand |-> "Purina Pro Plan Savor Adult", calories_per_100g |-> 107],
      [brand |-> "Wellness CORE Grain-Free Pate", calories_per_100g |-> 110],
      [brand |-> "Wellness Complete Health Pate", calories_per_100g |-> 100],
      [brand |-> "Weruva Cats in the Kitchen", calories_per_100g |-> 75],
      [brand |-> "Tiki Cat Luau Succulent Chicken", calories_per_100g |-> 70],
      [brand |-> "Instinct Original Grain-Free", calories_per_100g |-> 108],
      [brand |-> "Nutro Perfect Portions Pate", calories_per_100g |-> 88],
      [brand |-> "Natural Balance Limited Ingredient", calories_per_100g |-> 92],
      [brand |-> "Meow Mix Simple Servings", calories_per_100g |-> 84],
      [brand |-> "9Lives Meaty Pate", calories_per_100g |-> 91],
      [brand |-> "Purina Cat Chow Pate", calories_per_100g |-> 90],
      [brand |-> "Iams Pate Adult", calories_per_100g |-> 98],
      [brand |-> "Hill's Prescription Diet c/d", calories_per_100g |-> 94],
      [brand |-> "Royal Canin Urinary SO", calories_per_100g |-> 89],
      [brand |-> "Hill's Prescription Diet k/d", calories_per_100g |-> 102],
      [brand |-> "Royal Canin Recovery", calories_per_100g |-> 115]
    >> ]

None == [none |-> TRUE]

\* Mutant: the new entry is put in front of the list.
add_food_to_database_prepend(db, food_type, brand_name, calories_per_100g) ==
  LET new_food == [brand |-> brand_name, calories_per_100g |-> calories_per_100g]
      updated  == [db EXCEPT ![food_type] = <<new_food>> \o @]
  IN  [arg |-> updated, ret |-> updated]

\* The list is appended to in place and the same object is returned: arg is
\* the argument as the caller sees it after the call, ret the returned value.
add_food_to_database(db, food_type, brand_name, calories_per_100g) ==
  LET new_food == [brand |-> brand_name, calories_per_100g |-> calories_per_100g]
      updated  == [db EXCEPT ![food_type] = Append(@, new_food)]
  IN  [arg |-> updated, ret |-> updated]

\* Mutant: a later entry with the same brand replaces an earlier match.
RECURSIVE last_match(_, _, _)
last_match(foods, brand_name, i) ==
  IF i > Len(foods) THEN None
  ELSE LET rest == last_match(foods, brand_name, i + 1)
       IN  IF rest # None THEN rest
           ELSE IF foods[i].brand = brand_name THEN foods[i] ELSE None

RECURSIVE first_match(_, _, _)
first_match(foods, brand_name, i) ==
  IF i > Len(foods) THEN None
  ELSE IF foods[i].brand = brand_name THEN foods[i]
  ELSE first_match(foods, brand_name, i + 1)

get_food_by_brand(db, food_type, brand_name) ==
  first_match(IF food_type \in DOMAIN db THEN db[food_type] ELSE <<>>, brand_name, 1)

(***************************************************************************)
(* helpers.py: cat profiles.                                               *)
(***************************************************************************)
create_cat_profile(name, breed, weight_kg, age_years, age_months, life_stage, activity_level, body_condition, is_neutered, now) ==
  LET total_age_months == calculate_age_in_months(age_years, age_months)
      rer == calculate_resting_energy_requirement(weight_kg)
      der == calculate_daily_energy_requirement(rer, activity_level, life_stage,
                                                body_condition)
  IN  [ name |-> name, breed |-> breed, weight_kg |-> weight_kg,
        age_years |-> age_years, age_months |-> age_months,
        total_age_months |-> total_age_months, life_stage |-> life_stage,
        activity_level |-> activity_level, body_condition |-> body_condition,
        is_neutered |-> is_neutered, rer |-> rer, der |-> der,
        created_at |-> now ]

RecalcKeys ==
  {"weight_kg", "activity_level", "life_stage", "body_condition", "age_years", "age_months"}

\* kwargs is a record of the keyword arguments.  The profile is updated in
\* place, so the result is also what the caller's list holds afterwards.
update_cat_profile(cat_profile, kwargs) ==
  LET keys == DOMAIN cat_profile \cup (DOMAIN kwargs \cap {"age_years", "age_months"})
      p1 == [k \in keys |->
               IF k \in DOMAIN kwargs THEN kwargs[k] ELSE cat_profile[k]]
      p2 == IF DOMAIN kwargs \cap {"age_years", "age_months"} # {}
              THEN [p1 EXCEPT !["total_age_months"] =
                      calculate_age_in_months(p1["age_years"], p1["age_months"])]
              ELSE p1
      rer == calculate_resting_energy_requirement(p2["weight_kg"])
  IN  IF DOMAIN kwargs \cap RecalcKeys # {}
        THEN [p2 EXCEPT !["rer"] = rer,
                        !["der"] = calculate_daily_energy_requirement(
                                     rer, p2["activity_level"], p2["life_stage"],
                                     p2["body_condition"])]
        ELSE p2

(***************************************************************************)
(* helpers.py: feeding schedule.                                           *)
(***************************************************************************)
create_meal(cat_name, meal_time, food_type, brand, food_calories_per_100g, percentage_of_daily, daily_target_calories) ==
  LET target_calories == RMul(RDiv(R(percentage_of_daily), R(100)), daily_target_calories)
      serving == calculate_serving_size(R(food_calories_per_100g), target_calories, food_type)
  IN  IF "exception" \in DOMAIN serving THEN serving
      ELSE [ cat_name |-> cat_name, time |-> meal_time, food_type |-> food_type,
             brand |-> brand, percentage |-> percentage_of_daily,
             target_calories |-> target_calories,
             grams |-> serving.grams_needed, cups |-> serving.cups ]

\* Mutant: the schedule is not filtered by cat.
meals_of_any_cat(schedule, cat_name) == schedule

meals_of(schedule, cat_name) == SelectSeq(schedule, LAMBDA meal : meal.cat_name = cat_name)

RECURSIVE sum_field(_, _, _)
sum_field(meals, field, i) ==
  IF i = 0 THEN R(0) ELSE RAdd(sum_field(meals, field, i - 1), meals[i][field])

calculate_daily_totals(schedule, cat_name) ==
  LET cat_meals == meals_of(schedule, cat_name)
  IN  IF cat_meals = <<>>
        THEN [total_calories |-> R(0), total_grams |-> R(0), total_cups |-> R(0),
              meal_count |-> 0]
        ELSE [total_calories |-> sum_field(cat_meals, "target_calories", Len(cat_meals)),
              total_grams |-> sum_field(cat_meals, "grams", Len(cat_meals)),
              total_cups |-> sum_field(cat_meals, "cups", Len(cat_meals)),
              meal_count |-> Len(cat_meals)]

KeyError == [exception |-> "KeyError"]

\* breakdown after the loop has gone through meals[1..i].
RECURSIVE breakdown_prefix(_, _)
breakdown_prefix(cat_meals, i) ==
  IF i = 0 THEN [dry |-> R(0), wet |-> R(0)]
  ELSE LET breakdown == breakdown_prefix(cat_meals, i - 1)
           meal == cat_meals[i]
       IN  IF "exception" \in DOMAIN breakdown THEN breakdown
           ELSE IF meal.food_type \notin DOMAIN breakdown THEN KeyError
           ELSE [breakdown EXCEPT ![meal.food_type] = RAdd(@, meal.target_calories)]

\* Mutant: the meals of every cat are counted.
get_food_type_breakdown_all_cats(schedule, cat_name) ==
  breakdown_prefix(schedule, Len(schedule))

get_food_type_breakdown(schedule, cat_name) ==
  LET cat_meals == SelectSeq(schedule, LAMBDA meal : meal.cat_name = cat_name)
  IN  breakdown_prefix(cat_meals, Len(cat_meals))

\* sum(meal[field] for meal in meals[1..i]) with every addition rounded.
RECURSIVE sum_float(_, _, _)
sum_float(meals, field, i) ==
  IF i = 0 THEN R(0) ELSE float_add(sum_float(meals, field, i - 1), meals[i][field])

\* total_calories of calculate_daily_totals with every addition rounded.
total_calories_float(schedule, cat_name) ==
  LET cat_meals == meals_of(schedule, cat_name)
  IN  IF cat_meals = <<>> THEN R(0)
      ELSE sum_float(cat_meals, "target_calories", Len(cat_meals))

RECURSIVE breakdown_float_prefix(_, _)
breakdown_float_prefix(cat_meals, i) ==
  IF i = 0 THEN [dry |-> R(0), wet |-> R(0)]
  ELSE LET breakdown == breakdown_float_prefix(cat_meals, i - 1)
           meal == cat_meals[i]
       IN  IF "exception" \in DOMAIN breakdown THEN breakdown
           ELSE IF meal.food_type \notin DOMAIN breakdown THEN KeyError
           ELSE [breakdown EXCEPT ![meal.food_type] = float_add(@, meal.target_calories)]

\* Mutant: the wet meals are left out.
get_food_type_breakdown_float_dry_only(schedule, cat_name) ==
  LET cat_meals == SelectSeq(schedule, LAMBDA meal : meal.cat_name = cat_name
                                                      /\ meal.food_type = "dry")
  IN  breakdown_float_prefix(cat_meals, Len(cat_meals))

\* get_food_type_breakdown with every addition rounded.
get_food_type_breakdown_float(schedule, cat_name) ==
  LET cat_meals == SelectSeq(schedule, LAMBDA meal : meal.cat_name = cat_name)
  IN  breakdown_float_prefix(cat_meals, Len(cat_meals))

\* Mutant: a difference equal to the threshold is no longer balanced.
get_feeding_balance_status_strict(total_calories, target_calories, threshold) ==
  LET difference == RSub(total_calories, target_calories)
  IN  IF RLt(RAbs(difference), threshold) THEN <<"balanced", difference>>
      ELSE IF RLt(R(0), difference) THEN <<"over", difference>>
      ELSE <<"under", difference>>

get_feeding_balance_status(total_calories, target_calories, threshold) ==
  LET difference == RSub(total_calories, target_calories)
  IN  IF RLe(RAbs(difference), threshold) THEN <<"balanced", difference>>
      ELSE IF RLt(R(0), difference) THEN <<"over", difference>>
      ELSE <<"under", difference>>

\* Mutant: a zero target counts as fully met.
calculate_percentage_of_target_full(actual, target) ==
  IF target = R(0) THEN R(100) ELSE RMul(RDiv(actual, target), R(100))

calculate_percentage_of_target(actual, target) ==
  IF target = R(0) THEN R(0) ELSE RMul(RDiv(actual, target), R(100))

\* s < t for strings given as sequences of character codes.
RECURSIVE StrLt(_, _)
StrLt(s, t) ==
  IF t = <<>> THEN FALSE
  ELSE IF s = <<>> THEN TRUE
  ELSE IF Head(s) # Head(t) THEN Head(s) < Head(t)
  ELSE StrLt(Tail(s), Tail(t))

\* Mutant: the meal is inserted before the elements with an equal key.
RECURSIVE insert_by_time_unstable(_, _)
insert_by_time_unstable(sorted, meal) ==
  IF sorted = <<>> THEN <<meal>>
  ELSE IF ~StrLt(Head(sorted).time, meal.time) THEN <<meal>> \o sorted
  ELSE <<Head(sorted)>> \o insert_by_time_unstable(Tail(sorted), meal)

\* Insert meal after every element whose key is not greater (stable).
RECURSIVE insert_by_time(_, _)
insert_by_time(sorted, meal) ==
  IF sorted = <<>> THEN <<meal>>
  ELSE IF StrLt(meal.time, Head(sorted).time) THEN <<meal>> \o sorted
  ELSE <<Head(sorted)>> \o insert_by_time(Tail(sorted), meal)

RECURSIVE sort_prefix(_, _)
sort_prefix(meals, i) ==
  IF i = 0 THEN <<>> ELSE insert_by_time(sort_prefix(meals, i - 1), meals[i])

sort_meals_by_time(meals) == sort_prefix(meals, Len(meals))

\* meal_time.strftime("%H:%M") of a time <<hour, minute>>.
strftime_HM(t) ==
  <<48 + (t[1] \div 10), 48 + (t[1] % 10), 58, 48 + (t[2] \div 10), 48 + (t[2] % 10)>>

(***************************************************************************)
(* helpers.py: validation.                                                 *)
(***************************************************************************)
validate_weight(weight_kg) ==
  IF RLt(weight_kg, <<1, 2>>)
    THEN <<FALSE, "Weight seems too low. Please check the value.">>
  ELSE IF RLt(R(15), weight_kg)
    THEN <<FALSE, "Weight seems very high. Please verify.">>
  ELSE <<TRUE, "Weight is valid">>

validate_calories(calories_per_100g, food_type) ==
  IF food_type = "dry"
    THEN IF calories_per_100g < 300 \/ calories_per_100g > 500
           THEN <<FALSE, "Dry food calories typically range 300-500 kcal/100g">>
           ELSE <<TRUE, "Calories are valid">>
    ELSE IF calories_per_100g < 60 \/ calories_per_100g > 150
           THEN <<FALSE, "Wet food calories typically range 60-150 kcal/100g">>
           ELSE <<TRUE, "Calories are valid">>

(***************************************************************************)
(* helpers.py: Open Pet Food Facts lookup.  A JSON string is [str |-> s], a *)
(* JSON number [num |-> n], null is None, an object is a function of its    *)
(* keys and an array a sequence.                                            *)
(***************************************************************************)
Str(s) == [str |-> s]

Num(n) == [num |-> n]

IsStr(v) == "str" \in DOMAIN v

IsNone(v) == "none" \in DOMAIN v

\* dict.get(key, default)
Get(d, key, default) == IF key \in DOMAIN d THEN d[key] ELSE default

\* The characters of the strings the replies carry.
Spelling ==
  [ s \in {"", "Dog Chow", "Dog food", "CAT Kibble", "Pet food", "Tuna", "Cats, wet",
           "Dedicated diet", "Cat Treat"} |->
      CASE s = "" -> <<>>
        [] s = "Dog Chow" -> <<"D", "o", "g", " ", "C", "h", "o", "w">>
        [] s = "Dog food" -> <<"D", "o", "g", " ", "f", "o", "o", "d">>
        [] s = "CAT Kibble" -> <<"C", "A", "T", " ", "K", "i", "b", "b", "l", "e">>
        [] s = "Pet food" -> <<"P", "e", "t", " ", "f", "o", "o", "d">>
        [] s = "Tuna" -> <<"T", "u", "n", "a">>
        [] s = "Cats, wet" -> <<"C", "a", "t", "s", ",", " ", "w", "e", "t">>
        [] s = "Dedicated diet" ->
             <<"D", "e", "d", "i", "c", "a", "t", "e", "d", " ", "d", "i", "e", "t">>
        [] s = "Cat Treat" -> <<"C", "a", "t", " ", "T", "r", "e", "a", "t">> ]

UpperCase ==
  <<"A", "B", "C", "D", "E", "F", "G", "H", "I", "J", "K", "L", "M",
    "N", "O", "P", "Q", "R", "S", "T", "U", "V", "W", "X", "Y", "Z">>

LowerCase ==
  <<"a", "b", "c", "d", "e", "f", "g", "h", "i", "j", "k", "l", "m",
    "n", "o", "p", "q", "r", "s", "t", "u", "v", "w", "x", "y", "z">>

\* str.lower() on a sequence of characters.
lower(chars) ==
  [ i \in 1..Len(chars) |->
      IF \E k \in 1..Len(UpperCase) : UpperCase[k] = chars[i]
        THEN LowerCase[CHOOSE k \in 1..Len(UpperCase) : UpperCase[k] = chars[i]]
        ELSE chars[i] ]

\* sub in chars
Contains(chars, sub) ==
  \E k \in 0..(Len(chars) - Len(sub)) : SubSeq(chars, k + 1, k + Len(sub)) = sub

\* Mutant: the test for "cat" is case-sensitive.
has_cat_case_sensitive(v) == Contains(Spelling[v.str], <<"c", "a", "t">>)

\* 'cat' in v.lower() for a string v.
has_cat(v) == Contains(lower(Spelling[v.str]), <<"c", "a", "t">>)

\* The condition of the cat_foods comprehension for product p: "raise" when
\* .lower() is called on a value that is not a string.
is_cat_food(p) ==
  LET categories == Get(p, "categories", Str(""))
      product_name == Get(p, "product_name", Str(""))
  IN  IF ~IsStr(categories) THEN "raise"
      ELSE IF has_cat(categories) THEN "yes"
      ELSE IF ~IsStr(product_name) THEN "raise"
      ELSE IF has_cat(product_name) THEN "yes"
      ELSE "no"

\* A value inside an f-string.
format(v) == IF IsStr(v) THEN v.str ELSE "None"

AttributeError == [exception |-> "AttributeError"]

\* The try block of fetch_pet_food_data, with reply the outcome of
\* requests.get: the value returned or the exception raised.
fetch_try(product_name, reply) ==
  IF reply.kind # "response" THEN [exception |-> reply.kind]
  ELSE IF reply.status_code # 200 THEN None
  ELSE IF "data" \notin DOMAIN reply.body THEN [exception |-> "JSONDecodeError"]
  ELSE LET data == reply.body.data
       IN  IF "products" \notin DOMAIN data \/ data.products = <<>> THEN None
           ELSE LET products == data.products
                    cat_foods == SelectSeq(products, LAMBDA p : is_cat_food(p) = "yes")
                    product == IF cat_foods # <<>> THEN cat_foods[1] ELSE products[1]
                    nutriments == Get(product, "nutriments", <<>>)
                IN  IF \E i \in 1..Len(products) : is_cat_food(products[i]) = "raise"
                      THEN AttributeError
                    ELSE IF IsNone(nutriments) THEN AttributeError
                    ELSE [ brand |-> Get(product, "brands", Str("Unknown")),
                           product_name |-> Get(product, "product_name", Str("Unknown")),
                           categories |-> Get(product, "categories", Str("Unknown")),
                           calories_per_100g |-> Get(nutriments, "energy-kcal_100g", None),
                           url |-> "https://world.openpetfoodfacts.org/product/"
                                     \o format(Get(product, "code", Str(""))) ]

\* Mutant: the exception is not caught.
fetch_pet_food_data_uncaught(product_name, reply) == fetch_try(product_name, reply)

\* except Exception: return None
fetch_pet_food_data(product_name, reply) ==
  LET r == fetch_try(product_name, reply)
  IN  IF "exception" \in DOMAIN r THEN None ELSE r

(***************************************************************************)
(* Inputs of the forms.                                                    *)
(***************************************************************************)
\* datetime.now().strftime("%Y-%m-%d %H:%M:%S"): the model has one instant.
Timestamps == {"2026-01-01 00:00:00"}

\* Submissions of cat_profile_form (widget values at submit).
ProfileForms ==
  { [cat_name |-> "Tom", cat_breed |-> "", weight_kg |-> <<1, 1>>,
     age_years |-> 0, age_months |-> 3, life_stage |-> "kitten",
     activity_level |-> "very_young", body_condition |-> "ideal",
     is_neutered |-> FALSE],
    [cat_name |-> "Tom", cat_breed |-> "Siamese", weight_kg |-> <<81, 16>>,
     age_years |-> 3, age_months |-> 0, life_stage |-> "adult",
     activity_level |-> "high", body_condition |-> "overweight",
     is_neutered |-> TRUE],
    [cat_name |-> "Kit", cat_breed |-> "", weight_kg |-> <<1, 1>>,
     age_years |-> 11, age_months |-> 2, life_stage |-> "senior",
     activity_level |-> "low", body_condition |-> "ideal",
     is_neutered |-> TRUE],
    [cat_name |-> "", cat_breed |-> "", weight_kg |-> <<1, 1>>,
     age_years |-> 2, age_months |-> 0, life_stage |-> "adult",
     activity_level |-> "moderate", body_condition |-> "ideal",
     is_neutered |-> TRUE] }

\* Submissions of add_food_form.
FoodForms ==
  { [new_food_type |-> "wet", brand_name |-> "Royal Canin Urinary SO", calories |-> 200],
    [new_food_type |-> "dry", brand_name |-> "Acme Kibble", calories |-> 400],
    [new_food_type |-> "dry", brand_name |-> "", calories |-> 370] }

\* Submissions of feeding_schedule_form: time_input, food type, the position
\* picked in the brand selectbox (first or last) and the percentage slider.
MealForms ==
  { [meal_time |-> <<18, 30>>, food_type |-> "dry", brand_pos |-> "first", percentage |-> 25],
    [meal_time |-> <<8, 0>>, food_type |-> "wet", brand_pos |-> "last", percentage |-> 100] }

MealTimes == {f.meal_time : f \in MealForms}

brand_index(foods, brand_pos) == IF brand_pos = "first" THEN 1 ELSE Len(foods)

Kcal(n) == [k \in {"energy-kcal_100g"} |-> Num(n)]

\* Products of the replies: with and without "cat", with missing keys, with
\* null values.
DogChow ==
  [brands |-> Str("Acme"), product_name |-> Str("Dog Chow"),
   categories |-> Str("Dog food"), nutriments |-> Kcal(350), code |-> Str("001")]

CatKibble ==
  [brands |-> Str("Purrfect"), product_name |-> Str("CAT Kibble"),
   categories |-> Str("Pet food"), nutriments |-> Kcal(380), code |-> Str("002")]

TunaPouch ==
  [product_name |-> Str("Tuna"), categories |-> Str("Cats, wet"), code |-> Str("003")]

DedicatedDiet ==
  [brands |-> Str("Acme"), product_name |-> Str("Dedicated diet"),
   categories |-> Str("Dog food"), nutriments |-> Kcal(300), code |-> Str("004")]

NullCategories ==
  [product_name |-> Str("Cat Treat"), categories |-> None,
   nutriments |-> Kcal(90), code |-> Str("005")]

NullName ==
  [brands |-> Str("Felix"), product_name |-> None, categories |-> Str("Cats, wet"),
   nutriments |-> Kcal(85), code |-> Str("006")]

NullNutriments ==
  [brands |-> Str("Acme"), product_name |-> Str("Cat Treat"),
   categories |-> Str("Pet food"), nutriments |-> None, code |-> Str("007")]

\* A product whose energy value is a number below zero: the reply is decoded
\* JSON and nothing in the lookup restricts the sign.
NegativeEnergy ==
  [brands |-> Str("Felix"), product_name |-> Str("Cat Treat"),
   categories |-> Str("Cats, wet"), nutriments |-> Kcal(-85), code |-> Str("008")]

Products ==
  {DogChow, CatKibble, TunaPouch, DedicatedDiet, NullCategories, NullName, NullNutriments}

Ok200(products) ==
  [kind |-> "response", status_code |-> 200,
   body |-> [data |-> [count |-> Len(products), products |-> products]]]

\* Outcomes of the request behind the Search API button.
SearchReplies ==
  {[kind |-> "Timeout"], Ok200(<<DogChow, TunaPouch>>), Ok200(<<DogChow, CatKibble>>)}

\* Replies whose chosen product carries an energy value, above and below zero.
EnergyReplies == {Ok200(<<DogChow, CatKibble>>), Ok200(<<NegativeEnergy>>)}

\* Contents of the search_term text_input.
SearchInputs == {"", "Royal Canin Indoor"}

(***************************************************************************)
(* app.py: session state and handlers.                                     *)
(***************************************************************************)
NoCall == [fn |-> "none"]

Init ==
  /\ cats = <<>>
  /\ feeding_schedule = <<>>
  /\ food_database = load_default_food_database
  /\ notice = <<>>
  /\ call = NoCall

\* next((i for i, c in enumerate(cats) if c['name'] == cat_name), None); 0 is None.
RECURSIVE existing_index_from(_, _, _)
existing_index_from(profiles, cat_name, i) ==
  IF i > Len(profiles) THEN 0
  ELSE IF profiles[i].name = cat_name THEN i
  ELSE existing_index_from(profiles, cat_name, i + 1)

existing_index(profiles, cat_name) == existing_index_from(profiles, cat_name, 1)

\* Mutant: a resubmitted profile is moved to the end of the list.
upsert_move_to_end(profiles, cat_data) ==
  Append(SelectSeq(profiles, LAMBDA c : c.name # cat_data.name), cat_data)

\* Mutant: a submitted profile is always appended.
upsert_always_append(profiles, cat_data) == Append(profiles, cat_data)

upsert(profiles, cat_data) ==
  LET i == existing_index(profiles, cat_data.name)
  IN  IF i # 0 THEN [profiles EXCEPT ![i] = cat_data] ELSE Append(profiles, cat_data)

\* Mutant: saving a profile rescales that cat's scheduled meals to the new DER.
SubmitProfile_relink(f, now) ==
  /\ f.cat_name # ""
  /\ LET cat_data == create_cat_profile(
                       f.cat_name, IF f.cat_breed = "" THEN "Unknown" ELSE f.cat_breed,
                       f.weight_kg, f.age_years, f.age_months, f.life_stage,
                       f.activity_level, f.body_condition, f.is_neutered, now)
     IN  /\ cats' = upsert(cats, cat_data)
         /\ feeding_schedule' =
              [i \in 1..Len(feeding_schedule) |->
                 IF feeding_schedule[i].cat_name = f.cat_name
                   THEN [feeding_schedule[i] EXCEPT !.target_calories =
                           RMul(RDiv(R(feeding_schedule[i].percentage), R(100)), cat_data.der)]
                   ELSE feeding_schedule[i]]
         /\ notice' = <<"success: Updated profile">>
  /\ UNCHANGED <<food_database, call>>

\* Mutant: a profile is stored whatever its name.
SubmitProfile_no_name_check(f, now) ==
  /\ LET cat_data == create_cat_profile(
                       f.cat_name, IF f.cat_breed = "" THEN "Unknown" ELSE f.cat_breed,
                       f.weight_kg, f.age_years, f.age_months, f.life_stage,
                       f.activity_level, f.body_condition, f.is_neutered, now)
     IN  /\ cats' = upsert(cats, cat_data)
         /\ notice' = <<IF existing_index(cats, f.cat_name) # 0
                          THEN "success: Updated profile" ELSE "success: Added profile">>
  /\ UNCHANGED <<feeding_schedule, food_database, call>>

SubmitProfile(f, now) ==
  /\ IF f.cat_name = ""
       THEN /\ notice' = <<"error: Please enter a cat name.">>
            /\ cats' = cats
       ELSE LET v == validate_weight(f.weight_kg)
                cat_data == create_cat_profile(
                              f.cat_name, IF f.cat_breed = "" THEN "Unknown" ELSE f.cat_breed,
                              f.weight_kg, f.age_years, f.age_months, f.life_stage,
                              f.activity_level, f.body_condition, f.is_neutered, now)
                warned == IF v[1] THEN <<>> ELSE <<"warning: weight">>
            IN  /\ cats' = upsert(cats, cat_data)
                /\ notice' = warned \o
                     <<IF existing_index(cats, f.cat_name) # 0
                         THEN "success: Updated profile" ELSE "success: Added profile">>
  /\ UNCHANGED <<feeding_schedule, food_database, call>>

pop(seq, idx) == SubSeq(seq, 1, idx - 1) \o SubSeq(seq, idx + 1, Len(seq))

\* Mutant: a negative index is out of range.
list_pop_no_wrap(lst, idx) ==
  IF idx >= Len(lst) \/ idx < 0
    THEN [raised |-> "IndexError", list |-> lst]
    ELSE [raised |-> "", list |-> pop(lst, idx + 1)]

\* lst.pop(idx) with Python's indices: 0-based, a negative idx counts from the
\* end, IndexError outside -len..len-1.  list is lst after the call.
list_pop(lst, idx) ==
  IF idx >= Len(lst) \/ idx < -Len(lst)
    THEN [raised |-> "IndexError", list |-> lst]
    ELSE [raised |-> "", list |-> pop(lst, (IF idx < 0 THEN idx + Len(lst) ELSE idx) + 1)]

\* Mutant: deleting a profile also deletes the meals of that cat.
DeleteProfile_cascade(idx) ==
  /\ idx \in 1..Len(cats)
  /\ cats' = pop(cats, idx)
  /\ feeding_schedule' =
       SelectSeq(feeding_schedule, LAMBDA meal : meal.cat_name # cats[idx].name)
  /\ notice' = <<>>
  /\ UNCHANGED <<food_database, call>>

\* The delete button of the profile shown at position idx (1-based here).
DeleteProfile(idx) ==
  /\ idx \in 1..Len(cats)
  /\ cats' = list_pop(cats, idx - 1).list
  /\ notice' = <<>>
  /\ UNCHANGED <<feeding_schedule, food_database, call>>

added_count(db) ==
  Len(db.dry) + Len(db.wet)
    - Len(load_default_food_database.dry) - Len(load_default_food_database.wet)

\* Mutant: an entry with calories outside the usual range is not added.
AddFood_blocking(f) ==
  /\ added_count(food_database) < MaxAdded
  /\ IF f.brand_name = ""
       THEN /\ notice' = <<"error: Please enter a brand name.">>
            /\ food_database' = food_database
       ELSE IF ~validate_calories(f.calories, f.new_food_type)[1]
         THEN /\ notice' = <<"warning: calories">>
              /\ food_database' = food_database
         ELSE /\ food_database' =
                   add_food_to_database(food_database, f.new_food_type,
                                        f.brand_name, f.calories).ret
              /\ notice' = <<"success: Added food">>
  /\ UNCHANGED <<cats, feeding_schedule, call>>

AddFood(f) ==
  /\ added_count(food_database) < MaxAdded
  /\ IF f.brand_name = ""
       THEN /\ notice' = <<"error: Please enter a brand name.">>
            /\ food_database' = food_database
       ELSE LET v == validate_calories(f.calories, f.new_food_type)
                warned == IF v[1] THEN <<>> ELSE <<"warning: calories">>
            IN  /\ food_database' =
                     add_food_to_database(food_database, f.new_food_type,
                                          f.brand_name, f.calories).ret
                /\ notice' = warned \o <<"success: Added food">>
  /\ UNCHANGED <<cats, feeding_schedule, call>>

\* Truth value of a result field in an if.
Truthy(v) == ~IsNone(v) /\ v # Num(0) /\ v # Str("")

NoResultNotice == <<"warning: No cat food results found with calorie information.">>

\* What the Search API branch does with the result of the lookup; add tells
\* whether the branch of the Add to Database button, drawn inside it, runs in
\* the same pass.
show_result(result, found, add, food_type_choice) ==
  IF found
    THEN IF add
           THEN /\ food_database' =
                     add_food_to_database(
                       food_database, food_type_choice,
                       format(result.brand) \o " - " \o format(result.product_name),
                       result.calories_per_100g.num).ret
                /\ notice' = <<"success: Found cat food product!",
                               "success: Added to database!">>
           ELSE /\ food_database' = food_database
                /\ notice' = <<"success: Found cat food product!">>
    ELSE /\ food_database' = food_database
         /\ notice' = NoResultNotice

\* Mutant: a result is shown whether or not it carries calories.
SearchAPI_no_calorie_check(search_term, reply, add, food_type_choice) ==
  /\ add => added_count(food_database) < MaxAdded
  /\ IF search_term = ""
       THEN /\ notice' = <<"warning: Please enter a search term.">>
            /\ UNCHANGED <<food_database, call>>
       ELSE LET result == fetch_pet_food_data(search_term, reply)
            IN  /\ call' = [ fn |-> "fetch_pet_food_data", product_name |-> search_term,
                             reply |-> reply, result |-> result ]
                /\ show_result(result, result # None,
                               add /\ result # None /\ Truthy(result.calories_per_100g),
                               food_type_choice)
  /\ UNCHANGED <<cats, feeding_schedule>>

\* The Search API button with search_term typed and reply the outcome of the
\* request; the lookup made is kept in call.
SearchAPI(search_term, reply, add, food_type_choice) ==
  /\ add => added_count(food_database) < MaxAdded
  /\ IF search_term = ""
       THEN /\ notice' = <<"warning: Please enter a search term.">>
            /\ UNCHANGED <<food_database, call>>
       ELSE LET result == fetch_pet_food_data(search_term, reply)
            IN  /\ call' = [ fn |-> "fetch_pet_food_data", product_name |-> search_term,
                             reply |-> reply, result |-> result ]
                /\ show_result(result, result # None /\ Truthy(result.calories_per_100g),
                               add, food_type_choice)
  /\ UNCHANGED <<cats, feeding_schedule>>

\* next(cat for cat in cats if cat['name'] == selected_cat)
cat_by_name(profiles, selected_cat) == profiles[existing_index(profiles, selected_cat)]

\* feeding_schedule_form with the cat at position c selected.
AddMeal(c, f) ==
  /\ c \in 1..Len(cats)
  /\ f.food_type \in DOMAIN food_database /\ food_database[f.food_type] # <<>>
  /\ LET selected_cat == cats[c].name
         cat_data == cat_by_name(cats, selected_cat)
         food_brands == food_database[f.food_type]
         selected_brand == food_brands[brand_index(food_brands, f.brand_pos)].brand
         food_item == get_food_by_brand(food_database, f.food_type, selected_brand)
         meal == create_meal(selected_cat, strftime_HM(f.meal_time), f.food_type,
                             selected_brand, food_item.calories_per_100g,
                             f.percentage, cat_data.der)
     IN  /\ selected_brand # ""
         /\ "exception" \notin DOMAIN meal
         /\ feeding_schedule' = Append(feeding_schedule, meal)
         /\ notice' = <<"success: Added meal">>
  /\ UNCHANGED <<cats, food_database, call>>

\* Mutant: every element equal to x is dropped.
remove_all(seq, x) == SelectSeq(seq, LAMBDA y : y # x)

\* list.remove(x): drops the first element equal to x.
RECURSIVE remove_first(_, _)
remove_first(seq, x) ==
  IF seq = <<>> THEN <<>>
  ELSE IF Head(seq) = x THEN Tail(seq)
  ELSE <<Head(seq)>> \o remove_first(Tail(seq), x)

\* The remove button of the idx-th meal in the selected cat's sorted list.
RemoveMeal(c, idx) ==
  /\ c \in 1..Len(cats)
  /\ LET cat_meals == sort_meals_by_time(meals_of(feeding_schedule, cats[c].name))
     IN  /\ idx \in 1..Len(cat_meals)
         /\ feeding_schedule' = remove_first(feeding_schedule, cat_meals[idx])
  /\ notice' = <<>>
  /\ UNCHANGED <<cats, food_database, call>>

\* The handlers of the profile, Add Food and schedule forms and their buttons.
\* The Search API tab, which touches food_database and notice only, is
\* followed in SpecForms below.
Next ==
  \/ \E f \in ProfileForms, now \in Timestamps : SubmitProfile(f, now)
  \/ \E idx \in 1..Len(cats) : DeleteProfile(idx)
  \/ \E f \in FoodForms : AddFood(f)
  \/ \E c \in 1..Len(cats), f \in MealForms :
       Len(feeding_schedule) < MaxMeals /\ AddMeal(c, f)
  \/ \E c \in 1..Len(cats), idx \in 1..Len(feeding_schedule) : RemoveMeal(c, idx)

Spec == Init /\ [][Next]_vars

(***************************************************************************)
(* The handlers that write cats and food_database: the profile form and    *)
(* delete button, the Add Food form and the Search API tab.                *)
(***************************************************************************)
NextForms ==
  \/ \E f \in ProfileForms, now \in Timestamps : SubmitProfile(f, now)
  \/ \E idx \in 1..Len(cats) : DeleteProfile(idx)
  \/ \E f \in FoodForms : AddFood(f)
  \/ \E search_term \in SearchInputs, reply \in SearchReplies, add \in BOOLEAN,
        food_type_choice \in {"dry", "wet"} :
       SearchAPI(search_term, reply, add, food_type_choice)

SpecForms == Init /\ [][NextForms]_vars

(***************************************************************************)
(* The schedule of a day: the profile form submitted for two cats, the Add *)
(* Meal form and the remove buttons, with room for MaxDayMeals meals.      *)
(***************************************************************************)
DayProfiles ==
  {f \in ProfileForms : f.cat_name = "Kit" \/ (f.cat_name = "Tom" /\ f.life_stage = "kitten")}

NextDay ==
  \/ \E f \in DayProfiles, now \in Timestamps : SubmitProfile(f, now)
  \/ \E c \in 1..Len(cats), f \in MealForms :
       Len(feeding_schedule) < MaxDayMeals /\ AddMeal(c, f)
  \/ \E c \in 1..Len(cats), idx \in 1..Len(feeding_schedule) : RemoveMeal(c, idx)

SpecDay == Init /\ [][NextDay]_vars

(***************************************************************************)
(* The handlers between a reply of the lookup and a meal: the profile      *)
(* form submitted for one cat, the Add Food form, the Search API tab and  *)
(* the Add Meal form.                                                      *)
(***************************************************************************)
NextCatalog ==
  \/ \E f \in {g \in ProfileForms : g.cat_name = "Kit"}, now \in Timestamps : SubmitProfile(f, now)
  \/ \E f \in FoodForms : AddFood(f)
  \/ \E search_term \in SearchInputs, reply \in EnergyReplies, add \in BOOLEAN,
        food_type_choice \in {"dry", "wet"} :
       SearchAPI(search_term, reply, add, food_type_choice)
  \/ \E c \in 1..Len(cats), f \in MealForms :
       Len(feeding_schedule) < MaxMeals /\ AddMeal(c, f)

SpecCatalog == Init /\ [][NextCatalog]_vars

(***************************************************************************)
(* Direct calls of the helpers, with the arguments and the result kept in  *)
(* call.                                                                   *)
(***************************************************************************)
LifeStages == {"kitten", "adult", "senior"}

ActivityLevels == {"very_young", "low", "moderate", "high"}

BodyConditions == {"underweight", "ideal", "overweight"}

RerInputs == {R(70), <<945, 4>>, R(100)}

CalorieInputs == {0, 89, 370}

PercentageInputs == {0, 25, 33, 100}

TargetInputs == {R(0), R(370), <<945, 4>>}

ServingTargets == {<<185, 2>>, R(0), <<175, 4>>}

CallDailyEnergy(rer, activity_level, life_stage, body_condition) ==
  /\ call' = [ fn |-> "calculate_daily_energy_requirement", rer |-> rer,
               activity_level |-> activity_level, life_stage |-> life_stage,
               body_condition |-> body_condition,
               result |-> calculate_daily_energy_requirement(
                            rer, activity_level, life_stage, body_condition) ]
  /\ UNCHANGED <<cats, feeding_schedule, food_database, notice>>

CallServingSize(calories, target, food_type) ==
  /\ call' = [ fn |-> "calculate_serving_size", food_calories_per_100g |-> calories,
               target_calories |-> target, food_type |-> food_type,
               result |-> calculate_serving_size(R(calories), target, food_type) ]
  /\ UNCHANGED <<cats, feeding_schedule, food_database, notice>>

CallCreateMeal(cat_name, meal_time, food_type, brand, calories, percentage, target) ==
  /\ call' = [ fn |-> "create_meal", cat_name |-> cat_name, meal_time |-> meal_time,
               food_type |-> food_type, brand |-> brand,
               food_calories_per_100g |-> calories,
               percentage_of_daily |-> percentage, daily_target_calories |-> target,
               result |-> create_meal(cat_name, meal_time, food_type, brand, calories,
                                      percentage, target) ]
  /\ UNCHANGED <<cats, feeding_schedule, food_database, notice>>

CatalogInputs ==
  {load_default_food_database}
    \cup {add_food_to_database(load_default_food_database, f.new_food_type,
                               f.brand_name, f.calories).ret : f \in FoodForms}

CallAddFood(db, f) ==
  /\ LET r == add_food_to_database(db, f.new_food_type, f.brand_name, f.calories)
     IN  call' = [ fn |-> "add_food_to_database", food_database |-> db,
                   food_type |-> f.new_food_type, brand_name |-> f.brand_name,
                   calories_per_100g |-> f.calories,
                   arg_after |-> r.arg, result |-> r.ret ]
  /\ UNCHANGED <<cats, feeding_schedule, food_database, notice>>

BalanceTotals == {R(0), R(300), R(430), R(500), R(530), <<1061, 2>>, R(600)}

BalanceTargets == {R(0), <<945, 4>>, R(480)}

Thresholds == {R(0), R(20), R(50)}

CallBalanceStatus(total, target, threshold) ==
  /\ call' = [ fn |-> "get_feeding_balance_status", total_calories |-> total,
               target_calories |-> target, threshold |-> threshold,
               result |-> get_feeding_balance_status(total, target, threshold) ]
  /\ UNCHANGED <<cats, feeding_schedule, food_database, notice>>

\* Longest list handed to sort_meals_by_time.
MaxSortLen == 3

SortTimes == {<<9, 5>>, <<10, 0>>}

SortMeals == {[time |-> strftime_HM(t), brand |-> b] : t \in SortTimes, b \in {"A", "B"}}

SortInputs == UNION {[1..n -> SortMeals] : n \in 0..MaxSortLen}

\* sorted() builds a new list: the argument is the same list after the call.
CallSortMeals(meals) ==
  /\ call' = [ fn |-> "sort_meals_by_time", meals |-> meals, meals_after |-> meals,
               result |-> sort_meals_by_time(meals) ]
  /\ UNCHANGED <<cats, feeding_schedule, food_database, notice>>

ActualInputs == {R(0), <<175, 4>>, R(189), R(500)}

PercentTargets == {R(-50), R(0), R(175), <<945, 4>>}

CallPercentageOfTarget(actual, target) ==
  /\ call' = [ fn |-> "calculate_percentage_of_target", actual |-> actual,
               target |-> target,
               result |-> calculate_percentage_of_target(actual, target) ]
  /\ UNCHANGED <<cats, feeding_schedule, food_database, notice>>

\* Longest products array of a reply.
MaxProducts == 2

Bodies ==
  {[text |-> "<html>"], [data |-> [count |-> 0]]}
    \cup UNION { {[data |-> [count |-> n, products |-> ps]] : ps \in [1..n -> Products]} :
                  n \in 0..MaxProducts }

Replies ==
  {[kind |-> "ConnectionError"], [kind |-> "Timeout"]}
    \cup {[kind |-> "response", status_code |-> c, body |-> b] :
            c \in {200, 404}, b \in Bodies}

SearchTerms == {"Royal Canin Indoor"}

CallFetch(product_name, reply) ==
  /\ call' = [ fn |-> "fetch_pet_food_data", product_name |-> product_name,
               reply |-> reply, result |-> fetch_pet_food_data(product_name, reply) ]
  /\ UNCHANGED <<cats, feeding_schedule, food_database, notice>>

\* Lists of stored profiles (distinct names) and indices around their ends.
PopLists ==
  LET profiles == {create_cat_profile(f.cat_name, "Unknown", f.weight_kg, f.age_years,
                                      f.age_months, f.life_stage, f.activity_level,
                                      f.body_condition, f.is_neutered, now) :
                     f \in {g \in ProfileForms : g.cat_name # ""}, now \in Timestamps}
  IN  {<<>>} \cup {<<p>> : p \in profiles}
        \cup {pq \in profiles \X profiles : pq[1].name # pq[2].name}

PopIndices == -3..3

CallPop(lst, idx) ==
  /\ LET r == list_pop(lst, idx)
     IN  call' = [ fn |-> "list.pop", list |-> lst, idx |-> idx,
                   raised |-> r.raised, list_after |-> r.list ]
  /\ UNCHANGED <<cats, feeding_schedule, food_database, notice>>

AgeYears == {0, 1, 6, 7, 9, 10}

AgeMonths == {0, 4, 5, 11}

\* The age in months and the two suggestions derived from it.
CallAge(years, months) ==
  /\ LET age_months == calculate_age_in_months(years, months)
     IN  call' = [ fn |-> "calculate_age_in_months", years |-> years, months |-> months,
                   result |-> age_months,
                   life_stage |-> determine_life_stage(age_months),
                   activity_level |-> determine_activity_level_from_age(age_months) ]
  /\ UNCHANGED <<cats, feeding_schedule, food_database, notice>>

NextCalc ==
  \/ \E rer \in RerInputs, al \in ActivityLevels, ls \in LifeStages, bc \in BodyConditions :
       CallDailyEnergy(rer, al, ls, bc)
  \/ \E c \in CalorieInputs, t \in ServingTargets, ft \in {"dry", "wet"} :
       CallServingSize(c, t, ft)
  \/ \E mt \in MealTimes, ft \in {"dry", "wet"}, c \in CalorieInputs,
        pct \in PercentageInputs, t \in TargetInputs :
       CallCreateMeal("Tom", strftime_HM(mt), ft, "Acme Kibble", c, pct, t)
  \/ \E db \in CatalogInputs, f \in FoodForms : CallAddFood(db, f)
  \/ \E total \in BalanceTotals, target \in BalanceTargets, threshold \in Thresholds :
       CallBalanceStatus(total, target, threshold)
  \/ \E meals \in SortInputs : CallSortMeals(meals)
  \/ \E actual \in ActualInputs, target \in PercentTargets :
       CallPercentageOfTarget(actual, target)
  \/ \E product_name \in SearchTerms, reply \in Replies : CallFetch(product_name, reply)
  \/ \E lst \in PopLists, idx \in PopIndices : CallPop(lst, idx)
  \/ \E years \in AgeYears, months \in AgeMonths : CallAge(years, months)

SpecCalc == Init /\ [][NextCalc]_vars

(***************************************************************************)
(* update_cat_profile applied to a stored profile, beside the profile      *)
(* handlers.                                                               *)
(***************************************************************************)
KwargsInputs ==
  { [weight_kg |-> <<81, 16>>],
    [body_condition |-> "overweight", activity_level |-> "low"],
    [age_years |-> 12],
    [rer |-> R(100), weight_kg |-> <<1, 1>>],
    [der |-> R(0)],
    [nickname |-> "Tommy"] }

UpdateCatProfile(i, kwargs) ==
  /\ i \in 1..Len(cats)
  /\ cats' = [cats EXCEPT ![i] = update_cat_profile(cats[i], kwargs)]
  /\ UNCHANGED <<feeding_schedule, food_database, notice, call>>

NextProfiles ==
  \/ \E f \in ProfileForms, now \in Timestamps : SubmitProfile(f, now)
  \/ \E idx \in 1..Len(cats) : DeleteProfile(idx)
  \/ \E i \in 1..Len(cats), kwargs \in KwargsInputs : UpdateCatProfile(i, kwargs)

SpecProfiles == Init /\ [][NextProfiles]_vars

(***************************************************************************)
(* Properties.                                                             *)
(***************************************************************************)
IsPrefix(s, t) == Len(s) <= Len(t) /\ SubSeq(t, 1, Len(s)) = s

\* a is the rational b * c in lowest terms.
IsProduct(a, b, c) == a[2] > 0 /\ a = Norm(b[1] * c[1], b[2] * c[2])

FoodTypes == {"dry", "wet"}

CatNames == {f.cat_name : f \in ProfileForms} \cup {"Nobody"}

\* C1: calculate_daily_energy_requirement returns rer times the multiplier of
\* the first matching rule: kitten and very_young 2.5; kitten 2.0; overweight
\* 0.8; underweight 1.3; senior 1.1; low 1.2; moderate 1.4; otherwise 1.6.  So
\* a kitten's multiplier ignores the body condition, and a non-kitten that is
\* not ideal gets the body-condition multiplier whatever its activity or age.
C1_PriorityOrder ==
  call.fn = "calculate_daily_energy_requirement" =>
    LET ls == call.life_stage
        al == call.activity_level
        bc == call.body_condition
        m  == CASE ls = "kitten" /\ al = "very_young" -> <<25, 10>>
                [] ls = "kitten" /\ al # "very_young" -> <<20, 10>>
                [] ls # "kitten" /\ bc = "overweight" -> <<8, 10>>
                [] ls # "kitten" /\ bc = "underweight" -> <<13, 10>>
                [] ls = "senior" /\ bc = "ideal" -> <<11, 10>>
                [] ls = "adult" /\ bc = "ideal" /\ al = "low" -> <<12, 10>>
                [] ls = "adult" /\ bc = "ideal" /\ al = "moderate" -> <<14, 10>>
                [] OTHER -> <<16, 10>>
    IN  IsProduct(call.result, call.rer, m)

C1_Witness ==
  /\ call.fn = "calculate_daily_energy_requirement"
  /\ call.life_stage = "senior" /\ call.body_condition = "overweight"
  /\ call.activity_level = "high" /\ call.rer = R(100)
  /\ call.result = R(80)

C3_UpsertInPlace ==
  [][\A f \in ProfileForms, now \in Timestamps :
       (f.cat_name # "" /\ SubmitProfile(f, now)) =>
         LET hits == {i \in 1..Len(cats) : cats[i].name = f.cat_name}
             Submitted(p) ==
               /\ p.name = f.cat_name /\ p.weight_kg = f.weight_kg
               /\ p.age_years = f.age_years /\ p.age_months = f.age_months
               /\ p.life_stage = f.life_stage /\ p.activity_level = f.activity_level
               /\ p.body_condition = f.body_condition /\ p.is_neutered = f.is_neutered
         IN  IF hits # {}
               THEN /\ Len(cats') = Len(cats)
                    /\ \E i \in hits :
                         /\ Submitted(cats'[i])
                         /\ \A j \in (1..Len(cats)) \ {i} : cats'[j] = cats[j]
               ELSE /\ Len(cats') = Len(cats) + 1
                    /\ SubSeq(cats', 1, Len(cats)) = cats
                    /\ Submitted(cats'[Len(cats')])]_vars

C3_Witness ==
  /\ notice = <<"success: Updated profile">>
  /\ Len(cats) = 2
  /\ cats[1].name = "Tom" /\ cats[1].breed = "Siamese"
  /\ cats[2].name = "Kit"

\* C4: a meal returned by create_meal for a positive calorie density has
\* target_calories = percentage/100 * daily target, grams = target_calories /
\* caloriesPer100g * 100 and cups = grams/113 (dry) or grams/227 (wet);
\* calculate_serving_size(370, 92.5, dry) gives 25 grams and 25/113 cups.
C4_MealFormulas ==
  /\ (call.fn = "create_meal" /\ call.food_calories_per_100g > 0) =>
       LET m == call.result
       IN  /\ "exception" \notin DOMAIN m
           /\ IsProduct(m.target_calories, <<call.percentage_of_daily, 100>>,
                        call.daily_target_calories)
           /\ IsProduct(m.grams, m.target_calories,
                        <<100, call.food_calories_per_100g>>)
           /\ IsProduct(m.cups, m.grams,
                        <<1, IF call.food_type = "dry" THEN 113 ELSE 227>>)
           /\ m.percentage = call.percentage_of_daily
           /\ m.food_type = call.food_type
  /\ (/\ call.fn = "calculate_serving_size"
      /\ call.food_calories_per_100g = 370
      /\ call.target_calories = <<185, 2>>
      /\ call.food_type = "dry") =>
       call.result = [grams_needed |-> R(25), cups |-> <<25, 113>>]

C4_Witness ==
  /\ call.fn = "create_meal"
  /\ call.food_type = "wet" /\ call.food_calories_per_100g = 89
  /\ call.percentage_of_daily = 33 /\ call.daily_target_calories = <<945, 4>>
  /\ call.result.cups[1] > 0

\* C5: a scheduled meal is a snapshot.  Only a step of the remove button
\* takes a meal out of the schedule, and it takes out one meal and leaves
\* the others as they were; every other step (profile submit or delete,
\* adding a food, adding a meal) keeps each scheduled meal, field for field,
\* at its place.
C5_MealsAreSnapshots ==
  [][\/ /\ \E c \in 1..Len(cats), idx \in 1..Len(feeding_schedule) : RemoveMeal(c, idx)
        /\ \E k \in 1..Len(feeding_schedule) :
             feeding_schedule' = pop(feeding_schedule, k)
     \/ IsPrefix(feeding_schedule, feeding_schedule')]_vars

C5_Witness ==
  \E i \in 1..Len(feeding_schedule), c \in 1..Len(cats) :
    /\ cats[c].name = feeding_schedule[i].cat_name
    /\ feeding_schedule[i].target_calories #
         RMul(RDiv(R(feeding_schedule[i].percentage), R(100)), cats[c].der)
    /\ added_count(food_database) > 0

\* C6: deleting a profile and submitting a profile leave the feeding schedule
\* unchanged; the meals of a deleted name stay and are still counted under
\* that name.
C6_ProfileOpsKeepSchedule ==
  [][/\ (\E f \in ProfileForms, now \in Timestamps : SubmitProfile(f, now)) =>
          feeding_schedule' = feeding_schedule
     /\ \A idx \in 1..Len(cats) :
          DeleteProfile(idx) =>
            /\ feeding_schedule' = feeding_schedule
            /\ calculate_daily_totals(feeding_schedule', cats[idx].name).meal_count =
                 Cardinality({i \in 1..Len(feeding_schedule) :
                                feeding_schedule[i].cat_name = cats[idx].name})]_vars

\* Tom was added while a meal of Tom is scheduled: the profile had been deleted.
C6_Witness ==
  /\ notice = <<"success: Added profile">>
  /\ Len(cats) = 1 /\ cats[1].name = "Tom"
  /\ \E i \in 1..Len(feeding_schedule) : feeding_schedule[i].cat_name = "Tom"
  /\ calculate_daily_totals(feeding_schedule, "Tom").meal_count >= 1

\* C7: the catalog is append-only.  Each sequence keeps the seed table as a
\* prefix, every step keeps each sequence as a prefix of its next value, and
\* adding a food puts the entry at the end of its type's sequence and leaves
\* the other type's sequence unchanged.
C7_CatalogAppendOnly ==
  [][/\ DOMAIN food_database' = FoodTypes
     /\ \A t \in FoodTypes :
          /\ IsPrefix(food_database[t], food_database'[t])
          /\ IsPrefix(load_default_food_database[t], food_database'[t])
     /\ \A f \in FoodForms :
          (f.brand_name # "" /\ AddFood(f)) =>
            /\ food_database'[f.new_food_type] =
                 food_database[f.new_food_type] \o
                   <<[brand |-> f.brand_name, calories_per_100g |-> f.calories]>>
            /\ \A t \in FoodTypes \ {f.new_food_type} :
                 food_database'[t] = food_database[t]]_vars

C7_Witness ==
  /\ notice = <<"warning: calories", "success: Added food">>
  /\ Len(food_database.wet) = Len(load_default_food_database.wet) + 1
  /\ food_database.wet[Len(food_database.wet)] =
       [brand |-> "Royal Canin Urinary SO", calories_per_100g |-> 200]
  /\ food_database.dry = load_default_food_database.dry

\* C8: add_food_to_database does not modify the catalog it is passed: the
\* caller's catalog is after the call what it was before it.
C8_AddLeavesArgumentUntouched ==
  call.fn = "add_food_to_database" => call.arg_after = call.food_database

QueryTypes == FoodTypes \cup {"treats"}

QueryBrands ==
  {f.brand_name : f \in FoodForms}
    \cup {"Royal Canin Indoor Adult", "Royal Canin Recovery",
          "Hill's Prescription Diet c/d", "No Such Brand"}

\* C9: get_food_by_brand returns the first entry, in sequence order, of the
\* given type whose brand equals the query, also when a later entry has the
\* same brand; it returns None when the type has no such entry or the
\* catalog has no such type.
C9_FindFirstMatch ==
  \A t \in QueryTypes, b \in QueryBrands :
    LET foods == IF t \in DOMAIN food_database THEN food_database[t] ELSE <<>>
        hits  == {i \in 1..Len(foods) : foods[i].brand = b}
        r     == get_food_by_brand(food_database, t, b)
    IN  IF hits = {} THEN r = None
        ELSE \E i \in hits : (\A j \in hits : i <= j) /\ r = foods[i]

\* The wet list holds the brand twice and a meal was scheduled with it.
C9_Witness ==
  /\ Cardinality({i \in 1..Len(food_database.wet) :
                    food_database.wet[i].brand = "Royal Canin Urinary SO"}) = 2
  /\ get_food_by_brand(food_database, "wet", "Royal Canin Urinary SO").calories_per_100g = 89
  /\ get_food_by_brand(food_database, "dry", "Royal Canin Urinary SO").calories_per_100g = 371
  /\ \E i \in 1..Len(feeding_schedule) :
       /\ feeding_schedule[i].brand = "Royal Canin Urinary SO"
       /\ feeding_schedule[i].food_type = "wet"
       /\ IsProduct(feeding_schedule[i].grams, feeding_schedule[i].target_calories,
                    <<100, 89>>)

RECURSIVE SumOver(_, _, _)
SumOver(seq, field, S) ==
  IF S = {} THEN R(0)
  ELSE LET i == CHOOSE x \in S : TRUE
       IN  RAdd(seq[i][field], SumOver(seq, field, S \ {i}))

\* C10: calculate_daily_totals returns the sums of target_calories, grams
\* and cups over exactly the meals of the given cat and their number; with
\* no such meal all four are 0.
C10_DailyTotals ==
  \A n \in CatNames :
    LET own == {i \in 1..Len(feeding_schedule) : feeding_schedule[i].cat_name = n}
        t   == calculate_daily_totals(feeding_schedule, n)
    IN  /\ DOMAIN t = {"total_calories", "total_grams", "total_cups", "meal_count"}
        /\ t.meal_count = Cardinality(own)
        /\ t.total_calories = SumOver(feeding_schedule, "target_calories", own)
        /\ t.total_grams = SumOver(feeding_schedule, "grams", own)
        /\ t.total_cups = SumOver(feeding_schedule, "cups", own)
        /\ own = {} => t = [total_calories |-> R(0), total_grams |-> R(0),
                            total_cups |-> R(0), meal_count |-> 0]

C10_Witness ==
  /\ Len(feeding_schedule) >= 2
  /\ feeding_schedule[1].cat_name = "Tom" /\ feeding_schedule[2].cat_name = "Kit"
  /\ calculate_daily_totals(feeding_schedule, "Tom").meal_count = 1
  /\ calculate_daily_totals(feeding_schedule, "Tom").total_calories =
       feeding_schedule[1].target_calories
  /\ calculate_daily_totals(feeding_schedule, "Nobody").meal_count = 0

\* C11: for a threshold >= 0, get_feeding_balance_status returns the difference
\* total - target and exactly one status: balanced when |difference| <=
\* threshold, over when difference > threshold, under when difference <
\* -threshold; (500, 480, 50) gives (balanced, 20), (600, 480, 50) gives
\* (over, 120) and (300, 480, 50) gives (under, -180).
C11_BalanceStatus ==
  /\ call.fn = "get_feeding_balance_status" =>
       LET status == call.result[1]
           d      == call.result[2]
           thr    == call.threshold
       IN  /\ RAdd(d, call.target_calories) = call.total_calories
           /\ status \in {"balanced", "over", "under"}
           /\ status = "balanced" <=> (RLe(d, thr) /\ RLe(<<-thr[1], thr[2]>>, d))
           /\ status = "over" <=> RLt(thr, d)
           /\ status = "under" <=> RLt(d, <<-thr[1], thr[2]>>)
  /\ get_feeding_balance_status(R(500), R(480), R(50)) = <<"balanced", R(20)>>
  /\ get_feeding_balance_status(R(600), R(480), R(50)) = <<"over", R(120)>>
  /\ get_feeding_balance_status(R(300), R(480), R(50)) = <<"under", R(-180)>>

C11_Witness ==
  /\ call.fn = "get_feeding_balance_status"
  /\ call.total_calories = R(530) /\ call.target_calories = R(480)
  /\ call.threshold = R(50)
  /\ call.result = <<"balanced", R(50)>>

\* Minutes since midnight of a zero-padded "HH:MM" string.
MinutesOf(hm) ==
  ((hm[1] - 48) * 10 + (hm[2] - 48)) * 60 + (hm[4] - 48) * 10 + (hm[5] - 48)

ClockSamples == {<<h, m>> : h \in {0, 8, 9, 10, 18, 23}, m \in {0, 5, 30, 59}}

\* C12: sort_meals_by_time returns a permutation of its input in ascending
\* lexicographic order of time, meals with equal time keep their input order,
\* and the input list is not reordered; for zero-padded HH:MM strings the
\* lexicographic order is the chronological order.
C12_SortByTime ==
  /\ call.fn = "sort_meals_by_time" =>
       LET in  == call.meals
           out == call.result
       IN  /\ Len(out) = Len(in)
           /\ \A m \in SortMeals :
                Cardinality({i \in 1..Len(out) : out[i] = m})
                  = Cardinality({i \in 1..Len(in) : in[i] = m})
           /\ \A i, j \in 1..Len(out) :
                i < j => /\ ~StrLt(out[j].time, out[i].time)
                         /\ MinutesOf(out[i].time) <= MinutesOf(out[j].time)
           /\ \A t \in SortTimes :
                SelectSeq(out, LAMBDA m : m.time = strftime_HM(t))
                  = SelectSeq(in, LAMBDA m : m.time = strftime_HM(t))
           /\ call.meals_after = in
  /\ \A a, b \in ClockSamples :
       StrLt(strftime_HM(a), strftime_HM(b)) <=> a[1] * 60 + a[2] < b[1] * 60 + b[2]

C12_Witness ==
  /\ call.fn = "sort_meals_by_time"
  /\ call.meals = << [time |-> strftime_HM(<<10, 0>>), brand |-> "B"],
                     [time |-> strftime_HM(<<9, 5>>), brand |-> "B"],
                     [time |-> strftime_HM(<<9, 5>>), brand |-> "A"] >>
  /\ call.result = << [time |-> strftime_HM(<<9, 5>>), brand |-> "B"],
                      [time |-> strftime_HM(<<9, 5>>), brand |-> "A"],
                      [time |-> strftime_HM(<<10, 0>>), brand |-> "B"] >>

\* C13: get_food_type_breakdown returns a mapping with exactly the keys dry
\* and wet, each holding the sum of target_calories over the given cat's meals
\* of that food type, and 0 for a type the cat has no meal of.
C13_FoodTypeBreakdown ==
  \A n \in CatNames :
    LET b == get_food_type_breakdown(feeding_schedule, n)
        OfType(ft) == {i \in 1..Len(feeding_schedule) :
                         /\ feeding_schedule[i].cat_name = n
                         /\ feeding_schedule[i].food_type = ft}
    IN  /\ DOMAIN b = {"dry", "wet"}
        /\ \A ft \in FoodTypes :
             /\ b[ft] = SumOver(feeding_schedule, "target_calories", OfType(ft))
             /\ OfType(ft) = {} => b[ft] = R(0)

C13_Witness ==
  /\ Len(feeding_schedule) = 2
  /\ feeding_schedule[1].cat_name = "Tom" /\ feeding_schedule[1].food_type = "dry"
  /\ feeding_schedule[2].cat_name = "Kit" /\ feeding_schedule[2].food_type = "wet"
  /\ get_food_type_breakdown(feeding_schedule, "Tom")
       = [dry |-> feeding_schedule[1].target_calories, wet |-> R(0)]
  /\ get_food_type_breakdown(feeding_schedule, "Kit")
       = [dry |-> R(0), wet |-> feeding_schedule[2].target_calories]

\* C14: calculate_percentage_of_target returns 0 when the target is 0, without
\* faulting, and actual / target * 100 for every other target.
C14_PercentageOfTarget ==
  call.fn = "calculate_percentage_of_target" =>
    IF call.target[1] = 0
      THEN call.result = R(0)
      ELSE /\ call.result[2] > 0
           /\ RMul(call.result, call.target) = RMul(call.actual, R(100))

C14_Witness ==
  /\ call.fn = "calculate_percentage_of_target"
  /\ call.actual = R(500) /\ call.target = R(0)
  /\ call.result = R(0)

ChosenProduct(products) ==
  LET cat == {i \in 1..Len(products) : is_cat_food(products[i]) = "yes"}
  IN  IF cat # {} THEN products[CHOOSE i \in cat : \A j \in cat : i <= j]
      ELSE products[1]

\* A 200 reply whose chosen product has no nutriments.energy-kcal_100g value.
CalorieLess(reply) ==
  /\ reply.kind = "response" /\ reply.status_code = 200
  /\ "data" \in DOMAIN reply.body
  /\ "products" \in DOMAIN reply.body.data
  /\ reply.body.data.products # <<>>
  /\ LET p == ChosenProduct(reply.body.data.products)
     IN  \/ "nutriments" \notin DOMAIN p
         \/ "energy-kcal_100g" \notin DOMAIN p.nutriments

CatTexts == {"CAT Kibble", "Cats, wet", "Dedicated diet", "Cat Treat"}

\* C17: on a successful reply fetch_pet_food_data takes the first product, in
\* reply order, whose categories or product_name contains "cat" in any mix of
\* cases, and the first product of the reply when there is none.
C17_ChoosesFirstCatProduct ==
  (call.fn = "fetch_pet_food_data" /\ call.result # None) =>
    LET products == call.reply.body.data.products
        Mentions(p, key) == key \in DOMAIN p /\ IsStr(p[key]) /\ p[key].str \in CatTexts
        cat == {i \in 1..Len(products) :
                  Mentions(products[i], "categories") \/ Mentions(products[i], "product_name")}
        k == IF cat # {} THEN CHOOSE i \in cat : \A j \in cat : i <= j ELSE 1
    IN  /\ call.result.url =
             "https://world.openpetfoodfacts.org/product/" \o products[k].code.str
        /\ call.result.brand = Get(products[k], "brands", Str("Unknown"))
        /\ call.result.product_name = Get(products[k], "product_name", Str("Unknown"))
        /\ call.result.categories = Get(products[k], "categories", Str("Unknown"))

C17_Witness ==
  /\ call.fn = "fetch_pet_food_data"
  /\ call.reply = Ok200(<<DogChow, CatKibble>>)
  /\ call.result # None
  /\ call.result.product_name = Str("CAT Kibble")
  /\ call.result.url = "https://world.openpetfoodfacts.org/product/002"

\* C18: a profile submission with an empty cat name leaves the profile list
\* unchanged and an Add Food submission with an empty brand leaves the catalog
\* unchanged, each showing its error; so no stored profile has an empty name
\* and no entry added to the catalog has an empty brand.
C18_HardValidation ==
  [][/\ \A f \in ProfileForms, now \in Timestamps :
          (f.cat_name = "" /\ SubmitProfile(f, now)) =>
            cats' = cats /\ notice' = <<"error: Please enter a cat name.">>
     /\ \A f \in FoodForms :
          (f.brand_name = "" /\ AddFood(f)) =>
            food_database' = food_database
              /\ notice' = <<"error: Please enter a brand name.">>
     /\ \A i \in 1..Len(cats') : cats'[i].name # ""
     /\ \A t \in FoodTypes :
          \A i \in (Len(load_default_food_database[t]) + 1)..Len(food_database'[t]) :
            food_database'[t][i].brand # ""]_vars

C18_Witness ==
  /\ notice = <<"error: Please enter a cat name.">>
  /\ Len(cats) = 2
  /\ added_count(food_database) = 1

WeightSamples == {<<1, 4>>, <<49, 100>>, <<1, 2>>, <<9, 2>>, R(15), <<151, 10>>, R(16)}

CalorieSamples == {50, 59, 60, 61, 150, 151, 299, 300, 301, 500, 501, 600}

\* The usual range of calories per 100 g of a food type.
InRange(calories, food_type) ==
  IF food_type = "dry" THEN 300 <= calories /\ calories <= 500
  ELSE 60 <= calories /\ calories <= 150

\* C19: validate_weight reports invalid exactly for weights below 0.5 or above
\* 15, validate_calories exactly for calories outside 300..500 (dry) or
\* 60..150 (wet); an invalid value only adds a warning: with a non-empty name
\* the profile is still stored, with a non-empty brand the entry is still
\* appended to the catalog.
C19_SoftValidation ==
  [][/\ \A w \in WeightSamples \cup {f.weight_kg : f \in ProfileForms} :
          validate_weight(w)[1] <=> ~(RLt(w, <<1, 2>>) \/ RLt(R(15), w))
     /\ \A c \in CalorieSamples \cup {f.calories : f \in FoodForms}, t \in FoodTypes :
          validate_calories(c, t)[1] <=> InRange(c, t)
     /\ \A f \in ProfileForms, now \in Timestamps :
          (f.cat_name # "" /\ SubmitProfile(f, now)) =>
            /\ \E i \in 1..Len(cats') :
                 cats'[i].name = f.cat_name /\ cats'[i].weight_kg = f.weight_kg
            /\ ("warning: weight" \in {notice'[i] : i \in 1..Len(notice')})
                 <=> (RLt(f.weight_kg, <<1, 2>>) \/ RLt(R(15), f.weight_kg))
            /\ notice'[Len(notice')] \in {"success: Added profile", "success: Updated profile"}
     /\ \A f \in FoodForms :
          (f.brand_name # "" /\ AddFood(f)) =>
            /\ food_database'[f.new_food_type] =
                 Append(food_database[f.new_food_type],
                        [brand |-> f.brand_name, calories_per_100g |-> f.calories])
            /\ notice' = (IF InRange(f.calories, f.new_food_type)
                            THEN <<>> ELSE <<"warning: calories">>)
                           \o <<"success: Added food">>]_vars

C19_Witness ==
  /\ notice = <<"warning: calories", "success: Added food">>
  /\ ~validate_calories(200, "wet")[1]
  /\ food_database.wet =
       Append(load_default_food_database.wet,
              [brand |-> "Royal Canin Urinary SO", calories_per_100g |-> 200])
  /\ Len(cats) = 1

\* after is lst without its element at the 0-based position k.
RemovedAt(lst, k, after) ==
  /\ Len(after) = Len(lst) - 1
  /\ \A j \in 1..Len(after) : after[j] = IF j <= k THEN lst[j] ELSE lst[j + 1]

C21_AgeUtilities ==
  call.fn = "calculate_age_in_months" =>
    LET a == call.result
    IN  /\ a = call.years * 12 + call.months
        /\ call.life_stage = "kitten" <=> a \in 0..11
        /\ call.life_stage = "adult" <=> a \in 12..119
        /\ call.life_stage = "senior" <=> a >= 120
        /\ call.activity_level = "very_young" <=> a \in 0..4
        /\ call.activity_level = "high" <=> a \in 5..11
        /\ call.activity_level = "moderate" <=> a \in 12..83
        /\ call.activity_level = "low" <=> a >= 84
        /\ call.activity_level \in {"very_young", "high"} <=> call.life_stage = "kitten"

C21_Witness ==
  /\ call.fn = "calculate_age_in_months"
  /\ call.years = 0 /\ call.months = 4
  /\ call.result = 4
  /\ call.life_stage = "kitten" /\ call.activity_level = "very_young"

C23_UniqueNames ==
  \A i \in 1..Len(cats) :
    /\ \A j \in 1..Len(cats) : cats[i].name = cats[j].name => i = j
    /\ Cardinality({k \in 1..Len(cats) : cats[k].name = cats[i].name}) = 1
    /\ cat_by_name(cats, cats[i].name) = cats[i]

C23_Witness ==
  /\ notice = <<"success: Updated profile">>
  /\ Len(cats) = 2
  /\ cats[1].name = "Kit"
  /\ cats[2].name = "Tom" /\ cats[2].breed = "Siamese"
  /\ cat_by_name(cats, "Tom") = cats[2]

====
